---- MODULE Spec2Model ----
(***************************************************************************)
(* Model of sshauth (src/sshauth.go): the per-connection session handler   *)
(* registered with ssh.Handle, the byte-at-a-time line reader readN, the   *)
(* password check readPassword and the LDAP calls bind/exists/register.    *)
(*                                                                         *)
(* A session blocks on every stream Read, on sendmail and on every LDAP    *)
(* call; one action is the code run from one blocking call to the next.    *)
(* Bytes are their integer values; a Go string is the sequence of its      *)
(* bytes, except for fixed texts, which are TLA+ strings.                  *)
(***************************************************************************)
EXTENDS Integers, Sequences, FiniteSets, TLC

(* ------------------------------ configuration -------------------------- *)

\* options.TokenLength, options.PasswordMin, options.PasswordMax: environment
\* values, taken small here.
TokenLength == 2
PasswordMin == 2
PasswordMax == 3

\* options.ToSuffix, options.LdapUserScope and options.LldapURI (defaults).
ToSuffix == "@localhost"
LdapUserScope == "ou=people,dc=example,dc=com"
LldapURI == "https://localhost:17170"

\* i := 3 of the token loop and of the password loops.
TokenRetries_m == 3 + 1
TokenRetries == 3
PasswordRetries_m == 3 + 1
PasswordRetries == 3

\* Byte values the code names.
NUL == 0
DEL == 127
CR == 13
SPACE == 32

\* The bytes a peer sends in this model: '\r', DEL, 'y', 'n', '1' and '!'.
Bytes == {CR, DEL, 121, 110, 49, 33}

\* letters: the 62 alphanumeric bytes a-z, A-Z, 0-9.
letters == (97..122) \cup (65..90) \cup (48..57)

\* The part of letters a token is drawn from here ('y' and '1'): a token
\* holding any other letter behaves as any token the peer does not type.
runes == {121, 49}

\* A readN call on its own: the longest buffer, the most bytes Read delivers,
\* and the onlyIn arguments (none, the consent answers, letters).
MaxL == 2
MaxInput == 4
Filters == {{}, {121, 110}, letters}

\* The peers of the transport, and the sessions it dispatches.
Users == {"alice", "bob"}
Sessions == {1, 2}
Solo == {1}

\* The configured PASSWORD_REGEXP, one of two RE2 patterns for the rule
\* "alphanumeric, at least one letter and one digit":
\*   "anchored"  ^...$ over the whole input, at least PasswordMin bytes
\*   "search"    a letter and a digit anywhere in the input
Patterns == {"anchored", "search"}

VARIABLES
    running,         \* the process has not exited (log.Fatalf)
    passwordRegexp,  \* the pattern compiled at startup
    directory,       \* the LDAP entries: uid -> [email, userPassword]
    pc,              \* per session: the blocking call the handler is at
    user,            \* s.User()
    token,           \* the handler's local token
    res,             \* readN's buffer of the read in progress
    in,              \* readN's count of accepted bytes
    i,               \* the retry counter
    passwd,          \* the retained first password
    conn,            \* the session's LDAP connection: "none", "open", "closed"
    eof,             \* the session stream has failed: every Read returns an error
    out,             \* the texts the handler wrote with io.WriteString, in order
                     \* (what readN echoes is the wr of readNStep)
    calls,           \* the calls the handler made to mail and LDAP, in order
    rd               \* a readN call on its own: its arguments, locals and stream

sessionVars == <<running, passwordRegexp, directory, pc, user, token, res, in, i,
                 passwd, conn, eof, out, calls>>

vars == <<running, passwordRegexp, directory, pc, user, token, res, in, i,
          passwd, conn, eof, out, calls, rd>>

(* ------------------------------ pure functions ------------------------- *)

Zeros(l) == [k \in 1..l |-> NUL]

Last(q) == q[Len(q)]

\* One iteration of readN's loop on a byte b that Read delivered.
\* wr is what the iteration writes to the stream.
readNStep_keep(buf, n, b, l, onlyIn, write) ==
    IF b = DEL THEN
        IF n > 0
        THEN [res |-> [buf EXCEPT ![n] = SPACE], in |-> n, done |-> FALSE,
              wr |-> IF write THEN <<8, SPACE, 8>> ELSE <<>>]
        ELSE [res |-> buf, in |-> n, done |-> FALSE, wr |-> <<>>]
    ELSE IF b = CR THEN
        [res |-> buf, in |-> n, done |-> TRUE, wr |-> <<10, CR>>]
    ELSE IF onlyIn # {} /\ b \notin onlyIn THEN
        [res |-> buf, in |-> n, done |-> FALSE, wr |-> <<>>]
    ELSE IF n < l THEN
        [res |-> [buf EXCEPT ![n + 1] = b], in |-> n + 1, done |-> FALSE,
         wr |-> IF write THEN <<b>> ELSE <<>>]
    ELSE
        [res |-> buf, in |-> n, done |-> FALSE, wr |-> <<>>]

readNStep_erase(buf, n, b, l, onlyIn, write) ==
    IF b = DEL THEN
        IF n > 0
        THEN [res |-> [buf EXCEPT ![n] = SPACE], in |-> n - 1, done |-> FALSE,
              wr |-> IF write THEN <<8, SPACE, 8>> ELSE <<>>]
        ELSE [res |-> buf, in |-> n, done |-> FALSE,
              wr |-> IF write THEN <<8, SPACE, 8>> ELSE <<>>]
    ELSE IF b = CR THEN
        [res |-> buf, in |-> n, done |-> TRUE, wr |-> <<10, CR>>]
    ELSE IF onlyIn # {} /\ b \notin onlyIn THEN
        [res |-> buf, in |-> n, done |-> FALSE, wr |-> <<>>]
    ELSE IF n < l THEN
        [res |-> [buf EXCEPT ![n + 1] = b], in |-> n + 1, done |-> FALSE,
         wr |-> IF write THEN <<b>> ELSE <<>>]
    ELSE
        [res |-> buf, in |-> n, done |-> FALSE, wr |-> <<>>]

readNStep_nofilter(buf, n, b, l, onlyIn, write) ==
    IF b = DEL THEN
        IF n > 0
        THEN [res |-> [buf EXCEPT ![n] = SPACE], in |-> n - 1, done |-> FALSE,
              wr |-> IF write THEN <<8, SPACE, 8>> ELSE <<>>]
        ELSE [res |-> buf, in |-> n, done |-> FALSE, wr |-> <<>>]
    ELSE IF b = CR THEN
        [res |-> buf, in |-> n, done |-> TRUE, wr |-> <<10, CR>>]
    ELSE IF n < l THEN
        [res |-> [buf EXCEPT ![n + 1] = b], in |-> n + 1, done |-> FALSE,
         wr |-> IF write THEN <<b>> ELSE <<>>]
    ELSE
        [res |-> buf, in |-> n, done |-> FALSE, wr |-> <<>>]

readNStep_echo(buf, n, b, l, onlyIn, write) ==
    IF b = DEL THEN
        IF n > 0
        THEN [res |-> [buf EXCEPT ![n] = SPACE], in |-> n - 1, done |-> FALSE,
              wr |-> IF write THEN <<8, SPACE, 8>> ELSE <<>>]
        ELSE [res |-> buf, in |-> n, done |-> FALSE, wr |-> <<>>]
    ELSE IF b = CR THEN
        [res |-> buf, in |-> n, done |-> TRUE, wr |-> <<10, CR>>]
    ELSE IF onlyIn # {} /\ b \notin onlyIn THEN
        [res |-> buf, in |-> n, done |-> FALSE, wr |-> <<>>]
    ELSE IF n < l THEN
        [res |-> [buf EXCEPT ![n + 1] = b], in |-> n + 1, done |-> FALSE,
         wr |-> <<b>>]
    ELSE
        [res |-> buf, in |-> n, done |-> FALSE, wr |-> <<>>]

readNStep(buf, n, b, l, onlyIn, write) ==
    IF b = DEL THEN
        IF n > 0
        THEN [res |-> [buf EXCEPT ![n] = SPACE], in |-> n - 1, done |-> FALSE,
              wr |-> IF write THEN <<8, SPACE, 8>> ELSE <<>>]
        ELSE [res |-> buf, in |-> n, done |-> FALSE, wr |-> <<>>]
    ELSE IF b = CR THEN
        [res |-> buf, in |-> n, done |-> TRUE, wr |-> <<10, CR>>]
    ELSE IF onlyIn # {} /\ b \notin onlyIn THEN
        [res |-> buf, in |-> n, done |-> FALSE, wr |-> <<>>]
    ELSE IF n < l THEN
        [res |-> [buf EXCEPT ![n + 1] = b], in |-> n + 1, done |-> FALSE,
         wr |-> IF write THEN <<b>> ELSE <<>>]
    ELSE
        [res |-> buf, in |-> n, done |-> FALSE, wr |-> <<>>]

IsLetter(b) == b \in (97..122) \cup (65..90)
IsDigit(b) == b \in 48..57

\* passwordRegexp.Match(b): the pattern p applied to the byte sequence b.
Match(p, b) ==
    LET hasBoth == /\ \E k \in 1..Len(b) : IsLetter(b[k])
                   /\ \E k \in 1..Len(b) : IsDigit(b[k])
    IN IF p = "anchored"
       THEN /\ Len(b) >= PasswordMin
            /\ \A k \in 1..Len(b) : IsLetter(b[k]) \/ IsDigit(b[k])
            /\ hasBoth
       ELSE hasBoth

\* readPassword on what its readN call returned (passwd, read).
readPassword(p, buf, read) ==
    IF read < PasswordMin
    THEN [ok |-> FALSE, ans |-> "Password is too short"]
    ELSE IF ~Match(p, buf)
    THEN [ok |-> FALSE, ans |-> "Password does not comply with the rules"]
    ELSE [ok |-> TRUE, ans |-> buf]

\* A text written with io.WriteString: the format and its arguments.
Msg(text, args) == [text |-> text, args |-> args]

\* A call to a collaborator, with what it returned.
Call(op, uid, email, password, ret) ==
    [op |-> op, uid |-> uid, email |-> email, password |-> password, ret |-> ret]

\* The consent test: one accepted byte, and it is 'y'.
ConsentGiven_m(buf, read) == ~(read < 1)
ConsentGiven(buf, read) == ~(read < 1 \/ buf[1] # 121)

\* The token test: a full read equal to the issued token.
TokenMatches(buf, read, tok) == ~(read # TokenLength \/ buf # tok)

Mail(s) == user[s] \o ToSuffix
LoginURL == LldapURI \o "/login"
DN(uid) == "uid=" \o uid \o "," \o LdapUserScope

(* ------------------------------ initial state -------------------------- *)

InitSessions ==
    /\ running = TRUE
    /\ passwordRegexp \in Patterns
    /\ directory = [u \in {"bob"} |->
                      [email |-> "bob@localhost", userPassword |-> <<121, 49, 110>>]]
    /\ pc = [s \in Sessions |-> "idle"]
    /\ user = [s \in Sessions |-> ""]
    /\ token = [s \in Sessions |-> <<>>]
    /\ res = [s \in Sessions |-> <<>>]
    /\ in = [s \in Sessions |-> 0]
    /\ i = [s \in Sessions |-> 0]
    /\ passwd = [s \in Sessions |-> <<>>]
    /\ conn = [s \in Sessions |-> "none"]
    /\ eof = [s \in Sessions |-> FALSE]
    /\ out = [s \in Sessions |-> <<>>]
    /\ calls = [s \in Sessions |-> <<>>]

\* A readN call with arguments (l, onlyIn, write) before its first Read:
\* input is what Read has delivered, wr what readN has written, ret why it
\* returned.
Reader(l, onlyIn, write) ==
    [l |-> l, onlyIn |-> onlyIn, write |-> write, res |-> Zeros(l), in |-> 0,
     input |-> <<>>, wr |-> <<>>, ret |-> "reading"]

IdleReader == [Reader(0, {}, FALSE) EXCEPT !.ret = "idle"]

Init ==
    /\ InitSessions
    /\ rd = IdleReader

(* ------------------------------ the reader ----------------------------- *)

Reading(s) == pc[s] \in {"consent", "token", "pass1", "pass2"}

\* The arguments of the readN call the session is in.
ReadLen(s) ==
    IF pc[s] = "consent" THEN 1
    ELSE IF pc[s] = "token" THEN TokenLength
    ELSE PasswordMax

ReadOnlyIn(s) ==
    IF pc[s] = "consent" THEN {121, 110}
    ELSE IF pc[s] = "token" THEN {}
    ELSE letters

ReadWrite(s) == pc[s] \in {"consent", "token"}

\* The handler starts a readN call: a fresh buffer of l zero bytes.
StartRead(s, l) ==
    /\ res' = [res EXCEPT ![s] = Zeros(l)]
    /\ in' = [in EXCEPT ![s] = 0]

\* readN returns because Read delivered '\r' (the read state is unchanged)
\* or because Read failed (the accumulated state is returned as it is).
Returns(s, err) ==
    /\ running
    /\ Reading(s)
    /\ err \/ ~eof[s]
    /\ eof' = [eof EXCEPT ![s] = eof[s] \/ err]

\* What that readN call returns: (res, in).
Returned(s, err) ==
    IF err
    THEN [res |-> res[s], in |-> in[s]]
    ELSE LET r == readNStep(res[s], in[s], CR, ReadLen(s), ReadOnlyIn(s), ReadWrite(s))
         IN [res |-> r.res, in |-> r.in]

\* The handler's deferred s.Close() and, once bound, l.Close().
Finish(s) ==
    /\ pc' = [pc EXCEPT ![s] = "done"]
    /\ conn' = [conn EXCEPT ![s] = IF conn[s] = "open" THEN "closed" ELSE conn[s]]

\* log.Fatalf: the process exits, no deferred call runs.
Fatal_m == UNCHANGED <<running, pc, conn>>

Fatal ==
    /\ running' = FALSE
    /\ UNCHANGED <<pc, conn>>

(* ------------------------------ the handler ---------------------------- *)

\* The transport accepts a connection of peer u and runs the handler up to
\* the first Read of the consent readN.
Connect(s, u) ==
    /\ running
    /\ pc[s] = "idle"
    /\ user' = [user EXCEPT ![s] = u]
    /\ out' = [out EXCEPT ![s] = <<Msg("WELCOME_BODY", <<u \o ToSuffix>>)>>]
    /\ StartRead(s, 1)
    /\ pc' = [pc EXCEPT ![s] = "consent"]
    /\ UNCHANGED <<rd, running, passwordRegexp, directory, token, i, passwd, conn,
                   eof, calls>>

\* Read delivers a byte other than '\r' to the readN call in progress.
ReadByte(s, b) ==
    /\ running
    /\ Reading(s)
    /\ ~eof[s]
    /\ b # CR
    /\ LET r == readNStep(res[s], in[s], b, ReadLen(s), ReadOnlyIn(s), ReadWrite(s))
       IN /\ res' = [res EXCEPT ![s] = r.res]
          /\ in' = [in EXCEPT ![s] = r.in]
    /\ UNCHANGED <<rd, running, passwordRegexp, directory, pc, user, token, i,
                   passwd, conn, eof, out, calls>>

\* The consent readN returns: goodbye, or a fresh token and on to sendmail.
ConsentReturn_m(s, err) ==
    /\ Returns(s, err)
    /\ pc[s] = "consent"
    /\ IF ~ConsentGiven(Returned(s, err).res, Returned(s, err).in)
       THEN /\ out' = [out EXCEPT ![s] = Append(@, Msg("Bye!\n", <<>>))]
            /\ Finish(s)
            /\ UNCHANGED token
       ELSE /\ \E t \in [1..TokenLength -> runes] :
                   token' = [p \in Sessions |-> t]
            /\ pc' = [pc EXCEPT ![s] = "sendmail"]
            /\ UNCHANGED <<out, conn>>
    /\ UNCHANGED <<rd, running, passwordRegexp, directory, user, res, in, i,
                   passwd, calls>>

ConsentReturn(s, err) ==
    /\ Returns(s, err)
    /\ pc[s] = "consent"
    /\ IF ~ConsentGiven(Returned(s, err).res, Returned(s, err).in)
       THEN /\ out' = [out EXCEPT ![s] = Append(@, Msg("Bye!\n", <<>>))]
            /\ Finish(s)
            /\ UNCHANGED token
       ELSE /\ \E t \in [1..TokenLength -> runes] :
                   token' = [token EXCEPT ![s] = t]
            /\ pc' = [pc EXCEPT ![s] = "sendmail"]
            /\ UNCHANGED <<out, conn>>
    /\ UNCHANGED <<rd, running, passwordRegexp, directory, user, res, in, i,
                   passwd, calls>>

\* sendmail failed: the message, and the handler returns.
MailFailed_m(s) ==
    /\ out' = [out EXCEPT ![s] = Append(@, Msg("Could not send mail\n", <<>>))]
    /\ pc' = [pc EXCEPT ![s] = "bind"]
    /\ UNCHANGED <<i, res, in, conn>>

MailFailed(s) ==
    /\ out' = [out EXCEPT ![s] = Append(@, Msg("Could not send mail\n", <<>>))]
    /\ Finish(s)
    /\ UNCHANGED <<i, res, in>>

\* sendmail returns: failure ends the session, success starts the token loop.
SendMail(s, ok) ==
    /\ running
    /\ pc[s] = "sendmail"
    /\ calls' = [calls EXCEPT ![s] =
                   Append(@, Call("sendmail", "", Mail(s), token[s],
                                  IF ok THEN "ok" ELSE "err"))]
    /\ IF ok
       THEN /\ i' = [i EXCEPT ![s] = TokenRetries]
            /\ out' = [out EXCEPT ![s] = Append(@, Msg("TOKEN_BODY", <<>>))]
            /\ StartRead(s, TokenLength)
            /\ pc' = [pc EXCEPT ![s] = "token"]
            /\ UNCHANGED conn
       ELSE MailFailed(s)
    /\ UNCHANGED <<rd, running, passwordRegexp, directory, user, token, passwd, eof>>

\* The token loop's branches: the budget is spent, another attempt, a match.
TokenFailed_m(s) ==
    /\ out' = [out EXCEPT ![s] = Append(@, Msg("TOKEN_FAILED", <<>>))]
    /\ pc' = [pc EXCEPT ![s] = "bind"]
    /\ UNCHANGED <<res, in, conn, calls>>

TokenFailed(s) ==
    /\ out' = [out EXCEPT ![s] = Append(@, Msg("TOKEN_FAILED", <<>>))]
    /\ Finish(s)
    /\ UNCHANGED <<res, in, calls>>

TokenRetry_m(s) ==
    /\ out' = [out EXCEPT ![s] =
                 @ \o <<Msg("TOKEN_RETRY", <<i'[s]>>), Msg("TOKEN_BODY", <<>>)>>]
    /\ calls' = [calls EXCEPT ![s] =
                   Append(@, Call("sendmail", "", Mail(s), token[s], "ok"))]
    /\ StartRead(s, TokenLength)
    /\ UNCHANGED <<pc, conn>>

TokenRetry(s) ==
    /\ out' = [out EXCEPT ![s] =
                 @ \o <<Msg("TOKEN_RETRY", <<i'[s]>>), Msg("TOKEN_BODY", <<>>)>>]
    /\ StartRead(s, TokenLength)
    /\ UNCHANGED <<pc, conn, calls>>

TokenMatched(s) ==
    /\ pc' = [pc EXCEPT ![s] = "bind"]
    /\ UNCHANGED <<i, out, res, in, conn, calls>>

\* A token readN returns: compare, then retry, give up or go on to bind.
TokenReturn(s, err) ==
    /\ Returns(s, err)
    /\ pc[s] = "token"
    /\ IF ~TokenMatches(Returned(s, err).res, Returned(s, err).in, token[s])
       THEN /\ i' = [i EXCEPT ![s] = @ - 1]
            /\ IF i'[s] = 0 THEN TokenFailed(s) ELSE TokenRetry(s)
       ELSE TokenMatched(s)
    /\ UNCHANGED <<rd, running, passwordRegexp, directory, user, token, passwd>>

\* bind returns: the connection, or the process exits.
Bind(s, ok) ==
    /\ running
    /\ pc[s] = "bind"
    /\ calls' = [calls EXCEPT ![s] =
                   Append(@, Call("bind", "", "", <<>>, IF ok THEN "ok" ELSE "err"))]
    /\ IF ok
       THEN /\ conn' = [conn EXCEPT ![s] = "open"]
            /\ pc' = [pc EXCEPT ![s] = "exists"]
            /\ UNCHANGED running
       ELSE Fatal
    /\ UNCHANGED <<rd, passwordRegexp, directory, user, token, res, in, i, passwd,
                   eof, out>>

\* The handler's branches on what exists returned.
NotRegistered(s) ==
    /\ out' = [out EXCEPT ![s] =
                 @ \o <<Msg("You're not registered. Proceeding with the registration process\n", <<>>),
                        Msg("PASWORD_RULES", <<PasswordMin, PasswordMax>>),
                        Msg("Password: ", <<>>)>>]
    /\ passwd' = [passwd EXCEPT ![s] = <<>>]
    /\ i' = [i EXCEPT ![s] = PasswordRetries]
    /\ StartRead(s, PasswordMax)
    /\ pc' = [pc EXCEPT ![s] = "pass1"]
    /\ UNCHANGED <<running, conn>>

AlreadyRegistered_m(s) == NotRegistered(s)
AlreadyRegistered(s) ==
    /\ out' = [out EXCEPT ![s] = Append(@, Msg("ALREADY_REGISTERED", <<LoginURL>>))]
    /\ Finish(s)
    /\ UNCHANGED <<running, res, in, i, passwd>>

\* exists returns: already registered, the password stage, or the process exits.
\* ldap.EscapeFilter leaves the bytes of every uid in Users as they are.
Exists(s, ok) ==
    /\ running
    /\ pc[s] = "exists"
    /\ LET found == user[s] \in DOMAIN directory
       IN /\ calls' = [calls EXCEPT ![s] =
                         Append(@, Call("search", user[s], "", <<>>,
                                        IF ~ok THEN "err"
                                        ELSE IF found THEN "true" ELSE "false"))]
          /\ IF ~ok THEN
                 /\ Fatal
                 /\ UNCHANGED <<out, res, in, i, passwd>>
             ELSE IF found THEN AlreadyRegistered(s)
             ELSE NotRegistered(s)
    /\ UNCHANGED <<rd, passwordRegexp, directory, user, token, eof>>

\* The readN of the first password returns.
FirstPasswordReturn(s, err) ==
    /\ Returns(s, err)
    /\ pc[s] = "pass1"
    /\ LET r == readPassword(passwordRegexp, Returned(s, err).res, Returned(s, err).in)
       IN /\ i' = [i EXCEPT ![s] = @ - 1]
          /\ IF ~r.ok THEN
                 IF i'[s] <= 0
                 THEN /\ out' = [out EXCEPT ![s] =
                                   @ \o <<Msg(r.ans, <<>>), Msg("PASSWORD_FAILED", <<>>)>>]
                      /\ Finish(s)
                      /\ UNCHANGED <<res, in, passwd>>
                 ELSE /\ out' = [out EXCEPT ![s] =
                                   @ \o <<Msg(r.ans, <<>>), Msg("Password: ", <<>>)>>]
                      /\ StartRead(s, PasswordMax)
                      /\ UNCHANGED <<pc, conn, passwd>>
             ELSE
                 /\ passwd' = [passwd EXCEPT ![s] = r.ans]
                 /\ out' = [out EXCEPT ![s] = Append(@, Msg("Repeat your password: ", <<>>))]
                 /\ StartRead(s, PasswordMax)
                 /\ pc' = [pc EXCEPT ![s] = "pass2"]
                 /\ UNCHANGED conn
    /\ UNCHANGED <<rd, running, passwordRegexp, directory, user, token, calls>>

\* A failed confirmation with budget left: the second loop goes round.
RepeatAgain_m(s, reason) ==
    /\ out' = [out EXCEPT ![s] =
                 @ \o <<Msg(reason, <<>>), Msg("Password: ", <<>>)>>]
    /\ StartRead(s, PasswordMax)
    /\ pc' = [pc EXCEPT ![s] = "pass1"]
    /\ UNCHANGED <<conn, calls>>

RepeatAgain(s, reason) ==
    /\ out' = [out EXCEPT ![s] =
                 @ \o <<Msg(reason, <<>>), Msg("Repeat your password: ", <<>>)>>]
    /\ StartRead(s, PasswordMax)
    /\ UNCHANGED <<pc, conn, calls>>

\* The readN of the repeated password returns.
SecondPasswordReturn(s, err) ==
    /\ Returns(s, err)
    /\ pc[s] = "pass2"
    /\ LET r == readPassword(passwordRegexp, Returned(s, err).res, Returned(s, err).in)
           ok == r.ok /\ r.ans = passwd[s]
           secondPassword == IF r.ok THEN "Passwords don't match" ELSE r.ans
       IN /\ i' = [i EXCEPT ![s] = @ - 1]
          /\ IF ~ok THEN
                 IF i'[s] <= 0
                 THEN /\ out' = [out EXCEPT ![s] =
                                   @ \o <<Msg(secondPassword, <<>>),
                                          Msg("PASSWORD_FAILED", <<>>)>>]
                      /\ Finish(s)
                      /\ UNCHANGED <<res, in, calls>>
                 ELSE RepeatAgain(s, secondPassword)
             ELSE
                 /\ out' = [out EXCEPT ![s] =
                              Append(@, Msg("Registering user with the given password\n", <<>>))]
                 /\ calls' = [calls EXCEPT ![s] =
                                Append(@, Call("register", user[s], Mail(s), passwd[s], ""))]
                 /\ pc' = [pc EXCEPT ![s] = "add"]
                 /\ UNCHANGED <<res, in, conn>>
    /\ UNCHANGED <<rd, running, passwordRegexp, directory, user, token, passwd>>

\* register's l.Add returns: the entry exists now, or the process exits.
\* The server refuses an entry whose DN is present already.
Add(s, ok) ==
    /\ running
    /\ pc[s] = "add"
    /\ ok => user[s] \notin DOMAIN directory
    /\ calls' = [calls EXCEPT ![s] =
                   Append(@, Call("add", DN(user[s]), Mail(s), <<>>,
                                  IF ok THEN "ok" ELSE "err"))]
    /\ IF ok
       THEN /\ directory' = [u \in DOMAIN directory \cup {user[s]} |->
                               IF u = user[s]
                               THEN [email |-> Mail(s), userPassword |-> <<>>]
                               ELSE directory[u]]
            /\ pc' = [pc EXCEPT ![s] = "passmod"]
            /\ UNCHANGED <<running, conn>>
       ELSE /\ Fatal
            /\ UNCHANGED directory
    /\ UNCHANGED <<rd, passwordRegexp, user, token, res, in, i, passwd, eof, out>>

\* l.PasswordModify failed: register returns the error and the process
\* exits, the entry of l.Add stays.
PasswordModifyFailed_m(s) ==
    /\ Fatal
    /\ directory' = [u \in DOMAIN directory \ {user[s]} |-> directory[u]]
    /\ UNCHANGED out

PasswordModifyFailed(s) ==
    /\ Fatal
    /\ UNCHANGED <<directory, out>>

\* register's l.PasswordModify returns, and the handler writes its last text.
PasswordModify(s, ok) ==
    /\ running
    /\ pc[s] = "passmod"
    /\ calls' = [calls EXCEPT ![s] =
                   Append(@, Call("passmod", DN(user[s]), "", passwd[s],
                                  IF ok THEN "ok" ELSE "err"))]
    /\ IF ok
       THEN /\ directory' = [directory EXCEPT ![user[s]].userPassword = passwd[s]]
            /\ out' = [out EXCEPT ![s] =
                         Append(@, Msg("ALREADY_REGISTERED", <<LoginURL>>))]
            /\ Finish(s)
            /\ UNCHANGED running
       ELSE PasswordModifyFailed(s)
    /\ UNCHANGED <<rd, passwordRegexp, user, token, res, in, i, passwd, eof>>

Step(s) ==
    \/ \E u \in Users : Connect(s, u)
    \/ \E b \in Bytes : ReadByte(s, b)
    \/ \E err \in BOOLEAN : ConsentReturn(s, err)
    \/ \E ok \in BOOLEAN : SendMail(s, ok)
    \/ \E err \in BOOLEAN : TokenReturn(s, err)
    \/ \E ok \in BOOLEAN : Bind(s, ok)
    \/ \E ok \in BOOLEAN : Exists(s, ok)
    \/ \E err \in BOOLEAN : FirstPasswordReturn(s, err)
    \/ \E err \in BOOLEAN : SecondPasswordReturn(s, err)
    \/ \E ok \in BOOLEAN : Add(s, ok)
    \/ \E ok \in BOOLEAN : PasswordModify(s, ok)

\* One connection at a time.
Next == \E s \in Solo : Step(s)

Spec == Init /\ [][Next]_vars

(* ------------------------------ readN on its own ----------------------- *)

InitReader ==
    /\ InitSessions
    /\ \E l \in 0..MaxL, onlyIn \in Filters, write \in BOOLEAN :
           rd = Reader(l, onlyIn, write)

\* Read delivers the byte b to the call: one iteration of the loop.
ReaderRead(b) ==
    /\ rd.ret = "reading"
    /\ Len(rd.input) < MaxInput
    /\ LET r == readNStep(rd.res, rd.in, b, rd.l, rd.onlyIn, rd.write)
       IN rd' = [rd EXCEPT !.res = r.res, !.in = r.in,
                           !.input = Append(@, b), !.wr = @ \o r.wr,
                           !.ret = IF r.done THEN "cr" ELSE "reading"]
    /\ UNCHANGED sessionVars

\* Read fails: the call returns what it has.
ReaderFail ==
    /\ rd.ret = "reading"
    /\ rd' = [rd EXCEPT !.ret = "err"]
    /\ UNCHANGED sessionVars

NextReader == (\E b \in Bytes : ReaderRead(b)) \/ ReaderFail

SpecReader == InitReader /\ [][NextReader]_vars

(* ------------------------------ concurrent sessions -------------------- *)

\* The transport runs the handler of every connection in its own goroutine.
\* The peers of these runs type whole lines out of two, and the tokens are
\* drawn from the same two lines; the streams do not fail.
ConcLines ==
    { [k \in 1..TokenLength |-> IF k % 2 = 1 THEN 121 ELSE 49],
      [k \in 1..TokenLength |-> IF k % 2 = 1 THEN 49 ELSE 121] }

Scripted(s) ==
    /\ \E ln \in ConcLines :
           /\ in[s] <= Len(ln)
           /\ \A k \in 1..in[s] : res[s][k] = ln[k]
    /\ token[s] \in ConcLines \cup {<<>>}
    /\ ~eof[s]

Whole(s) == pc[s] = "consent" \/ in[s] = TokenLength

StepConc(s) ==
    \/ \E u \in Users : Connect(s, u)
    \/ \E b \in Bytes : ReadByte(s, b) /\ Scripted(s)'
    \/ \E err \in BOOLEAN : ConsentReturn(s, err) /\ Scripted(s)'
    \/ \E ok \in BOOLEAN : SendMail(s, ok)
    \/ \E err \in BOOLEAN : TokenReturn(s, err) /\ Whole(s) /\ Scripted(s)'
    \/ \E ok \in BOOLEAN : Bind(s, ok)
    \/ \E ok \in BOOLEAN : Exists(s, ok)
    \/ \E err \in BOOLEAN : FirstPasswordReturn(s, err) /\ Whole(s) /\ Scripted(s)'
    \/ \E err \in BOOLEAN : SecondPasswordReturn(s, err) /\ Whole(s) /\ Scripted(s)'
    \/ \E ok \in BOOLEAN : Add(s, ok)
    \/ \E ok \in BOOLEAN : PasswordModify(s, ok)

InitConc == Init /\ passwordRegexp = "search"

NextConc == \E s \in Sessions : StepConc(s)

SpecConc == InitConc /\ [][NextConc]_vars

(* ------------------------------ a session under fair scheduling -------- *)

\* One session whose peer types along the two lines, corrects with
\* backspace, ends a line when it likes, and whose stream may fail.
Typing(s) ==
    /\ \E ln \in ConcLines :
           /\ in[s] <= Len(ln)
           /\ \A k \in 1..in[s] : res[s][k] = ln[k]
    /\ token[s] \in ConcLines \cup {<<>>}

\* A Read of the session's stream returns: a byte, '\r' or an error.
ReadEvent(s) ==
    \/ \E b \in Bytes : ReadByte(s, b) /\ Typing(s)'
    \/ \E err \in BOOLEAN : ConsentReturn(s, err) /\ Typing(s)'
    \/ \E err \in BOOLEAN : TokenReturn(s, err)
    \/ \E err \in BOOLEAN : FirstPasswordReturn(s, err)
    \/ \E err \in BOOLEAN : SecondPasswordReturn(s, err)

\* A mail or directory call of the session returns.
CallEvent(s) ==
    \/ \E ok \in BOOLEAN : SendMail(s, ok)
    \/ \E ok \in BOOLEAN : Bind(s, ok)
    \/ \E ok \in BOOLEAN : Exists(s, ok)
    \/ \E ok \in BOOLEAN : Add(s, ok)
    \/ \E ok \in BOOLEAN : PasswordModify(s, ok)

StepLive(s) ==
    \/ \E u \in Users : Connect(s, u)
    \/ ReadEvent(s)
    \/ CallEvent(s)

NextLive == \E s \in Solo : StepLive(s)

\* Every Read and every call that the handler waits for returns.
Fairness == \A s \in Solo : WF_vars(ReadEvent(s)) /\ WF_vars(CallEvent(s))

SpecLive == Init /\ [][NextLive]_vars /\ Fairness

(* ------------------------------ properties ----------------------------- *)

\* How many of the texts in q are the text t, and how many of the calls in q
\* are the operation op.
CountText(q, t) == Cardinality({k \in DOMAIN q : q[k].text = t})
CountOp(q, op) == Cardinality({k \in DOMAIN q : q[k].op = op})

\* The token attempts that did not match: each writes TOKEN_RETRY or TOKEN_FAILED.
Mismatches(q) == CountText(q, "TOKEN_RETRY") + CountText(q, "TOKEN_FAILED")

C1_Inv ==
    \A s \in Sessions :
        /\ CountText(out[s], "TOKEN_BODY") <= 3
        /\ Mismatches(out[s]) <= 3
        /\ CountText(out[s], "TOKEN_FAILED") > 0 <=> Mismatches(out[s]) = 3
        /\ CountText(out[s], "TOKEN_FAILED") > 0 =>
               pc[s] = "done" /\ Last(out[s]).text = "TOKEN_FAILED"

C1_Act ==
    \A s \in Sessions :
        pc[s] = "token" /\ (pc'[s] # "token" \/ out'[s] # out[s]) =>
            IF in[s] = TokenLength /\ res[s] = token[s]
            THEN pc'[s] = "bind" /\ out'[s] = out[s]
            ELSE /\ Mismatches(out'[s]) = Mismatches(out[s]) + 1
                 /\ IF Mismatches(out'[s]) = 3
                    THEN pc'[s] = "done" /\ Last(out'[s]).text = "TOKEN_FAILED"
                    ELSE pc'[s] = "token" /\ Last(out'[s]).text = "TOKEN_BODY"

\* C1: the token stage ends with TOKEN_FAILED exactly at the third attempt
\* that does not match, never reads a fourth attempt, and an attempt of
\* TokenLength bytes equal to the issued token takes the session to bind.
C1_TokenBudget == []C1_Inv /\ [][C1_Act]_vars

\* A match on the third attempt.
C1_Witness ==
    \E s \in Sessions :
        pc[s] = "bind" /\ CountText(out[s], "TOKEN_RETRY") = 2

SearchTrue(s) ==
    \E k \in DOMAIN calls[s] :
        calls[s][k].op = "search" /\ calls[s][k].ret = "true"

\* C3: a session whose existence query returned true has ended with the
\* already-registered text, with no password prompt, no password read and no
\* register, add or password-set call.
C3_AlreadyRegistered ==
    \A s \in Sessions :
        SearchTrue(s) =>
            /\ pc[s] = "done"
            /\ Last(out[s]).text = "ALREADY_REGISTERED"
            /\ CountText(out[s], "Password: ") = 0
            /\ CountText(out[s], "Repeat your password: ") = 0
            /\ passwd[s] = <<>>
            /\ CountOp(calls[s], "register") = 0
            /\ CountOp(calls[s], "add") = 0
            /\ CountOp(calls[s], "passmod") = 0

C3_Witness == \E s \in Sessions : SearchTrue(s) /\ user[s] = "bob"

C5_Inv ==
    \A s \in Sessions :
        CountText(out[s], "Bye!\n") > 0 =>
            /\ pc[s] = "done"
            /\ Last(out[s]).text = "Bye!\n"
            /\ token[s] = <<>>
            /\ calls[s] = <<>>
            /\ conn[s] = "none"

C5_Act ==
    \A s \in Sessions :
        pc[s] = "consent" /\ pc'[s] # "consent"
                          /\ ~(in[s] = 1 /\ res[s] = <<121>>) =>
            /\ pc'[s] = "done"
            /\ Last(out'[s]).text = "Bye!\n"

\* C5: a consent read that is not exactly the one byte 'y' ends the session
\* with the goodbye text: no token, no mail, no directory call.
C5_Decline == []C5_Inv /\ [][C5_Act]_vars

\* The peer answered 'n'.
C5_Witness ==
    \E s \in Sessions :
        pc[s] = "done" /\ Last(out[s]).text = "Bye!\n" /\ res[s] = <<110>>

C6_Inv ==
    \A s \in Sessions :
        /\ \A k \in DOMAIN calls[s] :
               calls[s][k].op = "add" =>
                   /\ calls[s][k].uid = DN(user[s])
                   /\ \E j \in 1..(k - 1) :
                          /\ calls[s][j].op = "search"
                          /\ calls[s][j].uid = user[s]
                          /\ calls[s][j].ret = "false"
        /\ CountOp(calls[s], "add") <= 1
        /\ CountOp(calls[s], "passmod") <= 1
        /\ CountOp(calls[s], "sendmail") <= 1

C6_Act == \A s \in Sessions : token[s] # <<>> => token'[s] = token[s]

\* C6: an add follows an existence query of the same session and identity
\* that returned false; a session makes at most one add, one password-set
\* and one mail send, and its token, once generated, never changes.
C6_OncePerSession == []C6_Inv /\ [][C6_Act]_vars

\* A session that registered its peer.
C6_Witness ==
    \E s \in Sessions :
        /\ pc[s] = "done"
        /\ CountOp(calls[s], "add") = 1
        /\ CountOp(calls[s], "passmod") = 1

DirOps == {"bind", "search", "register", "add", "passmod"}
DirStage == {"bind", "exists", "pass1", "pass2", "add", "passmod"}

C8_Inv ==
    \A s \in Sessions :
        /\ (CountText(out[s], "TOKEN_BODY") > 0 \/ \E k \in DOMAIN calls[s] : calls[s][k].op \in DirOps)
              => /\ calls[s] # <<>>
                 /\ calls[s][1].op = "sendmail"
                 /\ calls[s][1].ret = "ok"
        /\ CountText(out[s], "TOKEN_FAILED") > 0 =>
               \A k \in DOMAIN calls[s] : calls[s][k].op \notin DirOps

C8_Act ==
    \A s \in Sessions :
        /\ pc'[s] = "sendmail" /\ pc[s] # "sendmail" =>
               pc[s] = "consent" /\ in[s] = 1 /\ res[s] = <<121>>
        /\ CountOp(calls'[s], "sendmail") > CountOp(calls[s], "sendmail") =>
               pc[s] = "sendmail"
        /\ pc'[s] \in DirStage /\ pc[s] \notin DirStage =>
               pc[s] = "token" /\ in[s] = TokenLength /\ res[s] = token[s]
        /\ (\E op \in DirOps : CountOp(calls'[s], op) > CountOp(calls[s], op)) =>
               pc[s] \in DirStage

\* C8: mail is sent only after the consent 'y', a token prompt is written
\* only after the mail send succeeded, and a directory call is made only
\* after a token attempt matched; a session that ended with TOKEN_FAILED
\* made no directory call.
C8_StageOrder == []C8_Inv /\ [][C8_Act]_vars

\* Three token entries that did not match, typed on a live stream.
C8_Witness ==
    \E s \in Sessions :
        /\ CountText(out[s], "TOKEN_FAILED") = 1
        /\ ~eof[s]
        /\ Len(calls[s]) = 1

Reasons == {"Password is too short", "Password does not comply with the rules",
            "Passwords don't match"}

\* The password attempts that failed: each writes its reason.
Failures(q) == Cardinality({k \in DOMAIN q : q[k].text \in Reasons})

\* C2: the password budget starts at 3, only a failed attempt spends it, and
\* the session ends with PASSWORD_FAILED exactly at the third failed attempt.
C2_SharedBudget ==
    \A s \in Sessions :
        /\ pc[s] \in {"pass1", "pass2"} => i[s] = PasswordRetries - Failures(out[s])
        /\ CountText(out[s], "PASSWORD_FAILED") > 0 <=> Failures(out[s]) = 3

C4_Act ==
    \A s \in Sessions :
        CountOp(calls'[s], "register") > CountOp(calls[s], "register") =>
            /\ Last(calls'[s]).uid = user[s]
            /\ Last(calls'[s]).email = user[s] \o ToSuffix
            /\ Last(calls'[s]).password = SubSeq(res[s], 1, in[s])

\* C4: register is called at most once, with the peer identity, the
\* identity followed by the suffix, and the accepted bytes of the confirmed
\* password.
C4_RegisterArguments ==
    /\ [](\A s \in Sessions : CountOp(calls[s], "register") <= 1)
    /\ [][C4_Act]_vars

\* C7: after a failed stream read the session makes no further call to mail
\* or to the directory.
C7_NoCallAfterReadFailure ==
    [][\A s \in Sessions : eof[s] => calls'[s] = calls[s]]_vars

\* C9: after a successful register the last text is REGISTRATION_SUCCESS,
\* and ALREADY_REGISTERED is written only when the existence query returned true.
C9_TerminalTexts ==
    \A s \in Sessions :
        /\ (\E k \in DOMAIN calls[s] :
                calls[s][k].op = "passmod" /\ calls[s][k].ret = "ok")
              => Last(out[s]).text = "REGISTRATION_SUCCESS"
        /\ CountText(out[s], "ALREADY_REGISTERED") > 0 => SearchTrue(s)

C10_Act ==
    \A s \in Sessions :
        pc[s] = "pass1" /\ out'[s] # out[s] =>
            LET n == in[s]
                candidate == SubSeq(res[s], 1, n)
                inBounds == PasswordMin <= n /\ n <= PasswordMax
                reason == out'[s][Len(out[s]) + 1].text
            IN /\ pc'[s] = "pass2" <=> inBounds /\ Match(passwordRegexp, candidate)
               /\ ~inBounds => reason = "Password is too short"
               /\ inBounds /\ ~Match(passwordRegexp, candidate) =>
                      reason = "Password does not comply with the rules"

\* C10: readPassword accepts exactly the candidates whose n accepted bytes
\* are within the length bounds and match the pattern, and rejects the
\* others with the reason of the test that failed.
C10_PasswordPolicy == [][C10_Act]_vars

\* The bytes accepted after the input inp: a byte that passes the filter is
\* appended while fewer than l are held, a backspace drops the last one.
RECURSIVE Accepted(_, _, _)
Accepted(inp, l, onlyIn) ==
    IF inp = <<>> THEN <<>>
    ELSE LET a == Accepted(SubSeq(inp, 1, Len(inp) - 1), l, onlyIn)
             b == inp[Len(inp)]
         IN IF b = DEL THEN SubSeq(a, 1, Len(a) - 1)
            ELSE IF b = CR THEN a
            ELSE IF onlyIn # {} /\ b \notin onlyIn THEN a
            ELSE IF Len(a) < l THEN Append(a, b)
            ELSE a

\* C11: a readN call ended by '\r' returns a count that is at most l and is
\* the number of bytes accepted, and the first count slots of the buffer
\* hold the accepted bytes in order.
C11_ReaderResult ==
    rd.ret = "cr" =>
        /\ rd.in <= rd.l
        /\ Len(rd.res) = rd.l
        /\ rd.in = Len(Accepted(rd.input, rd.l, rd.onlyIn))
        /\ SubSeq(rd.res, 1, rd.in) = Accepted(rd.input, rd.l, rd.onlyIn)

\* A filtered line with a backspace in it.
C11_Witness ==
    /\ rd.ret = "cr"
    /\ rd.in >= 1
    /\ rd.onlyIn # {}
    /\ \E k \in DOMAIN rd.input : rd.input[k] = DEL /\ k > 1

\* The byte the step delivered, when the step is a Read.
ReadOf(b) == Len(rd'.input) = Len(rd.input) + 1 /\ Last(rd'.input) = b

C12_Act ==
    ReadOf(DEL) /\ rd.in = 0 =>
        rd'.in = 0 /\ rd'.res = rd.res /\ rd'.wr = rd.wr

\* C12: a backspace at count 0 leaves count, buffer and stream as they are,
\* and the count is always between 0 and l.
C12_BackspaceAtStart ==
    /\ [](0 <= rd.in /\ rd.in <= rd.l)
    /\ [][C12_Act]_vars

\* A backspace as the first byte of an echoing call.
C12_Witness ==
    /\ rd.input # <<>>
    /\ rd.input[1] = DEL
    /\ rd.write
    /\ rd.l > 0

C18_Act ==
    \A b \in Bytes \ {CR, DEL} :
        ReadOf(b) =>
            /\ rd'.ret = "reading"
            /\ IF (rd.onlyIn = {} \/ b \in rd.onlyIn) /\ rd.in < rd.l
               THEN /\ rd'.in = rd.in + 1
                    /\ rd'.res = [rd.res EXCEPT ![rd.in + 1] = b]
                    /\ rd'.wr = rd.wr \o (IF rd.write THEN <<b>> ELSE <<>>)
               ELSE /\ rd'.in = rd.in
                    /\ rd'.res = rd.res
                    /\ rd'.wr = rd.wr

\* C18: a byte other than '\r' and backspace changes the call only when it
\* passes the filter and the count is below l, and never ends the call.
C18_OtherByte == [][C18_Act]_vars

\* A full buffer, and the call still reading.
C18_Witness ==
    /\ rd.ret = "reading"
    /\ rd.l > 0
    /\ rd.in = rd.l
    /\ Len(rd.input) > rd.l
    /\ \A k \in DOMAIN rd.input : rd.input[k] \notin {CR, DEL}

\* C19: without echo the call writes nothing but "\n\r" on a '\r',
\* whatever the input; with echo a '\r' ends the output with "\n\r" too.
C19_EchoOff ==
    /\ ~rd.write => rd.wr = (IF rd.ret = "cr" THEN <<10, CR>> ELSE <<>>)
    /\ rd.write /\ rd.ret = "cr" =>
           /\ Len(rd.wr) >= 2
           /\ SubSeq(rd.wr, Len(rd.wr) - 1, Len(rd.wr)) = <<10, CR>>

\* A line typed and corrected without echo.
C19_Witness ==
    /\ ~rd.write
    /\ rd.ret = "cr"
    /\ rd.in >= 1
    /\ \E k \in DOMAIN rd.input : rd.input[k] = DEL /\ k > 1

\* The step is a directory call of session s that returned an error.
DirFailure(s) ==
    /\ Len(calls'[s]) = Len(calls[s]) + 1
    /\ Last(calls'[s]).op \in DirOps
    /\ Last(calls'[s]).ret = "err"

C13_Inv ==
    ~running => \E s \in Sessions :
                    /\ calls[s] # <<>>
                    /\ calls[s][Len(calls[s])].op \in DirOps
                    /\ calls[s][Len(calls[s])].ret = "err"
                    /\ pc[s] # "done"

C13_Act ==
    /\ running
    /\ (\E s \in Sessions : DirFailure(s)) => ~running'

\* C13: a directory failure in one session stops the process: the other
\* sessions stay where they are, short of their outcome, and no session takes
\* a step afterwards.
C13_FatalStopsAll == []C13_Inv /\ [][C13_Act]_vars

\* The password-set of one session failed while the other was typing.
C13_Witness ==
    /\ ~running
    /\ calls[1] # <<>>
    /\ calls[1][Len(calls[1])].op = "passmod"
    /\ pc[2] \in {"token", "pass1", "pass2"}
    /\ in[2] > 0

\* Everything the handler of session s holds.
SessionState(s) ==
    <<pc[s], user[s], token[s], res[s], in[s], i[s], passwd[s], conn[s], eof[s],
      out[s], calls[s]>>

\* sendmail returned an error in session s.
MailFailure(s) ==
    \E k \in DOMAIN calls[s] : calls[s][k].op = "sendmail" /\ calls[s][k].ret = "err"

C14_Inv ==
    \A s \in Sessions :
        /\ MailFailure(s) =>
              /\ pc[s] = "done"
              /\ Len(calls[s]) = 1
              /\ out[s][Len(out[s])].text = "Could not send mail\n"
              /\ CountText(out[s], "Could not send mail\n") = 1
              /\ CountText(out[s], "TOKEN_BODY") = 0
        /\ CountText(out[s], "Could not send mail\n") > 0 => MailFailure(s)

C14_Act ==
    \A s \in Sessions :
        pc[s] = "sendmail" /\ MailFailure(s)' =>
            /\ running' = running
            /\ directory' = directory
            /\ res'[s] = res[s] /\ in'[s] = in[s] /\ i'[s] = i[s]
            /\ \A t \in Sessions \ {s} : SessionState(t)' = SessionState(t)

\* C14: a failed sendmail writes the mail-failure text and ends the session
\* at once: no second sendmail, no token prompt or read, no directory call,
\* and nothing changes for the other sessions.
C14_MailFailure == []C14_Inv /\ [][C14_Act]_vars

\* The mail of one session failed, and the other session went on to its
\* password confirmation.
C14_Witness ==
    /\ MailFailure(1)
    /\ pc[2] = "pass2"
    /\ running

C15_Act ==
    \A s \in Sessions :
        /\ pc[s] \in {"pass2", "add", "passmod"} => passwd'[s] = passwd[s]
        /\ pc[s] = "pass2" =>
              /\ pc'[s] \in {"pass2", "add", "done"}
              /\ CountText(out'[s], "Password: ") = CountText(out[s], "Password: ")
              /\ i'[s] # i[s] =>
                    LET r == readPassword(passwordRegexp, res[s], in[s])
                    IN /\ pc'[s] = "add" <=> r.ok /\ r.ans = passwd[s]
                       /\ pc'[s] = "pass2" =>
                             out'[s][Len(out'[s])].text = "Repeat your password: "
                       /\ CountText(out'[s], "Passwords don't match")
                             = CountText(out[s], "Passwords don't match")
                               + (IF r.ok /\ r.ans # passwd[s] THEN 1 ELSE 0)

\* C15: once a first password is accepted the session never prompts for it
\* again: a failed confirmation repeats the confirmation prompt only, and the
\* first password is kept as it is and is what every confirmation is compared
\* with.
C15_NoReturnToFirst == [][C15_Act]_vars

\* A confirmation failed and the session asks for the confirmation again.
C15_Witness ==
    /\ pc[1] = "pass2"
    /\ CountText(out[1], "Passwords don't match") = 1
    /\ CountText(out[1], "Repeat your password: ") = 2
    /\ in[1] > 0

\* The bytes a password buffer holds as accepted ones: readN accepts only
\* letters and digits for a password, and a slot past them holds 0 or ' '.
Alnum(b) == b \in letters
TypedIn(buf) == SelectSeq(buf, Alnum)

C16_Act ==
    \A s \in Sessions :
        pc[s] = "pass2" /\ i'[s] # i[s] =>
            LET r == readPassword(passwordRegexp, res[s], in[s])
            IN pc'[s] = "add" <=>
                  r.ok /\ SubSeq(res[s], 1, in[s]) = TypedIn(passwd[s])

\* C16: the confirmation succeeds exactly when the second entry is valid and
\* its accepted bytes are those of the first entry, however they were typed.
C16_SameAcceptedBytes == [][C16_Act]_vars

C17_Inv ==
    \A s \in Sessions : \A k \in DOMAIN calls[s] :
        /\ calls[s][k].op = "passmod" =>
              /\ k > 1
              /\ calls[s][k - 1].op = "add"
              /\ calls[s][k - 1].ret = "ok"
        /\ calls[s][k].op = "add" /\ calls[s][k].ret = "err" =>
              /\ k = Len(calls[s])
              /\ ~running
        /\ calls[s][k].op = "passmod" /\ calls[s][k].ret = "err" =>
              /\ k = Len(calls[s])
              /\ ~running
              /\ user[s] \in DOMAIN directory
              /\ directory[user[s]].userPassword = <<>>

C17_Act == DOMAIN directory \subseteq DOMAIN directory'

\* C17: register adds the entry and then sets the password: a failed add
\* stops before the password-set, and a failed password-set leaves the added
\* entry in the directory, without a password; no entry is ever removed.
C17_AddThenPassword == []C17_Inv /\ [][C17_Act]_vars

\* The password-set failed after the add.
C17_Witness ==
    /\ ~running
    /\ calls[1] # <<>>
    /\ calls[1][Len(calls[1])].op = "passmod"
    /\ calls[1][Len(calls[1])].ret = "err"
    /\ "alice" \in DOMAIN directory

\* The token sendmail mailed in session s.
Mailed(s) == calls[s][1].password

C20_Inv ==
    \A s \in Sessions :
        pc[s] \in {"sendmail", "token"} /\ calls[s] # <<>> => token[s] = Mailed(s)

C20_Act ==
    /\ \A s, t \in Sessions :
           s # t => SessionState(s)' = SessionState(s) \/ SessionState(t)' = SessionState(t)
    /\ \A s \in Sessions :
           pc[s] = "token" /\ (pc'[s] # pc[s] \/ i'[s] # i[s]) =>
               (pc'[s] = "bind" <=> in[s] = TokenLength /\ res[s] = Mailed(s))

\* C20: a step changes what one session holds and nothing of any other
\* session (token, budgets, first password, stage), and a token attempt is
\* matched against the token mailed in its own session.
C20_SessionsApart == []C20_Inv /\ [][C20_Act]_vars

\* Two sessions hold different tokens, and one has matched its own while the
\* other is typing.
C20_Witness ==
    /\ pc[1] = "bind"
    /\ pc[2] = "token"
    /\ token[1] # token[2]
    /\ in[2] > 0
    /\ i[2] < TokenRetries

\* The session is over: its handler returned, or the process exited.
Ended(s) == pc[s] = "done" \/ ~running

\* C21 as stated: when every Read and every call returns, a connected
\* session is eventually over.
C21_EveryReadReturns == \A s \in Solo : pc[s] # "idle" ~> Ended(s)

\* The prompts of the password reads, and the most texts a session writes.
PasswordReads(q) == CountText(q, "Password: ") + CountText(q, "Repeat your password: ")
MaxTexts == 1 + 6 + 3 + 8 + 1

C21_Inv ==
    \A s \in Sessions :
        /\ CountText(out[s], "TOKEN_BODY") <= 3
        /\ PasswordReads(out[s]) <= 4
        /\ Len(out[s]) <= MaxTexts
        /\ eof[s] /\ Reading(s) => in[s] = 0

C21_Act ==
    \A s \in Sessions :
        eof[s] /\ Reading(s) /\ SessionState(s)' # SessionState(s) =>
            /\ pc[s] = "consent" => pc'[s] = "done"
            /\ pc[s] # "consent" =>
                  /\ i'[s] = i[s] - 1
                  /\ pc'[s] \in {pc[s], "done"}
                  /\ i'[s] <= 0 => pc'[s] = "done"

\* One readN call of session s goes on for ever: s stays in a read and
\* writes no further text.
NeverReturns(s) == \E n \in 0..MaxTexts : <>[](Reading(s) /\ Len(out[s]) = n)

\* C21, amended: a session makes at most 3 token reads and 4 password reads;
\* when every call returns, a connected session is eventually over unless one
\* of its readN calls never returns; a read begun after the stream failed
\* returns with count 0 and spends one unit of the budget of its stage.
C21_BoundedAttempts ==
    /\ []C21_Inv
    /\ [][C21_Act]_vars
    /\ \A s \in Solo : (pc[s] # "idle" ~> Ended(s)) \/ NeverReturns(s)

\* The stream failed in the token stage and the session ran out of budget.
C21_Witness ==
    /\ eof[1]
    /\ pc[1] = "done"
    /\ CountText(out[1], "TOKEN_BODY") = 3
    /\ CountText(out[1], "TOKEN_FAILED") = 1

\* C22: a session binds at most once and only after its token matched, and
\* the connection it opened is closed when its directory interaction is over,
\* whether the handler returned or a directory call failed.
C22_ConnectionClosed ==
    \A s \in Sessions :
        /\ CountOp(calls[s], "bind") <= 1
        /\ CountOp(calls[s], "bind") = 1 =>
              /\ calls[s][1].op = "sendmail" /\ calls[s][1].ret = "ok"
              /\ CountText(out[s], "TOKEN_BODY") >= 1
              /\ CountText(out[s], "TOKEN_FAILED") = 0
        /\ conn[s] # "none" =>
              \E k \in DOMAIN calls[s] :
                  calls[s][k].op = "bind" /\ calls[s][k].ret = "ok"
        /\ Ended(s) => conn[s] # "open"

====
